---- MODULE Spec2Model ----
(***************************************************************************)
(* Model of inventory.py: the containerlab topology -> ansible inventory   *)
(* generator.  The state is the module-level INVENTORY dict and the four   *)
(* module-level subnet generators (ipv4_loop, ipv4_link, ipv6_link,        *)
(* ipv6_loop); the steps are the iterations of the loops of add_lab_nodes  *)
(* and add_lab_links and the final print of main().                        *)
(*                                                                         *)
(* Python strings are sequences of one-character strings, so that split,   *)
(* rjust, slicing, str() of an address and the parse of an address are     *)
(* computed as the code computes them.  Addresses are big-endian tuples of *)
(* limbs (4 octets, or 8 hextets).                                         *)
(***************************************************************************)
EXTENDS Integers, Sequences, FiniteSets, TLC

(***************************************************************************)
(* Python str operations used by the program.                              *)
(***************************************************************************)

\* s[a:b] (0-based, end exclusive, clipped to the string).
Slice(s, a, b) ==
    SubSeq(s, a + 1, IF b < Len(s) THEN b ELSE Len(s))

\* s[a:]
SliceFrom(s, a) ==
    SubSeq(s, a + 1, Len(s))

\* Index (1-based) of the first occurrence of character c in s, 0 if none.
Find(s, c) ==
    IF \E i \in 1..Len(s) : s[i] = c
    THEN CHOOSE i \in 1..Len(s) : s[i] = c /\ \A j \in 1..(i - 1) : s[j] # c
    ELSE 0

RECURSIVE Split(_, _)
\* s.split(sep) for a one-character separator.
Split(s, sep) ==
    LET i == Find(s, sep)
    IN  IF i = 0 THEN <<s>>
        ELSE <<SubSeq(s, 1, i - 1)>> \o Split(SubSeq(s, i + 1, Len(s)), sep)

\* s.split(sep, maxsplit=1)
SplitOnce(s, sep) ==
    LET i == Find(s, sep)
    IN  IF i = 0 THEN <<s>>
        ELSE <<SubSeq(s, 1, i - 1), SubSeq(s, i + 1, Len(s))>>

RECURSIVE Rjust(_, _, _)
\* s.rjust(width, fill)
Rjust(s, width, fill) ==
    IF Len(s) >= width THEN s ELSE Rjust(<<fill>> \o s, width, fill)

RECURSIVE Join(_, _)
\* sep.join(parts)
Join(parts, sep) ==
    IF parts = <<>> THEN <<>>
    ELSE IF Len(parts) = 1 THEN parts[1]
    ELSE parts[1] \o sep \o Join(Tail(parts), sep)

DigitChars ==
    <<"0", "1", "2", "3", "4", "5", "6", "7", "8", "9",
      "a", "b", "c", "d", "e", "f">>

RECURSIVE IntToStr(_, _)
\* str(n) (base 10) and '%x' % n (base 16) of a non-negative integer.
IntToStr(n, base) ==
    IF n < base THEN <<DigitChars[n + 1]>>
    ELSE IntToStr(n \div base, base) \o <<DigitChars[(n % base) + 1]>>

DigitValue(c) ==
    CHOOSE v \in 0..15 : DigitChars[v + 1] = c

RECURSIVE StrToInt(_, _)
\* int(s, base) of a non-empty digit string.
StrToInt(s, base) ==
    IF Len(s) = 1 THEN DigitValue(s[1])
    ELSE StrToInt(SubSeq(s, 1, Len(s) - 1), base) * base + DigitValue(s[Len(s)])

(***************************************************************************)
(* The ipaddress objects the program uses: addresses, networks, str(),     *)
(* the parse of IPv4Network/IPv6Network(text, strict=False), subnets()     *)
(* and hosts().                                                            *)
(***************************************************************************)

\* Number of address bits and size of a limb of the textual form per version.
MaxPrefixLen(version) == IF version = 4 THEN 32 ELSE 128
LimbBits(version) == IF version = 4 THEN 8 ELSE 16

RECURSIVE AddrCarry(_, _, _, _)
AddrCarry(addr, i, carry, radix) ==
    IF i = 0 \/ carry = 0 THEN addr
    ELSE LET s == addr[i] + carry
         IN  AddrCarry([addr EXCEPT ![i] = s % radix], i - 1, s \div radix, radix)

\* address + k (integer addition on the address value).
AddrAdd(addr, k, version) ==
    AddrCarry(addr, Len(addr), k, 2 ^ LimbBits(version))

\* address & netmask: the host bits (all after the first prefixlen) cleared.
AddrMask(addr, prefixlen, version) ==
    LET w == LimbBits(version)
    IN  [i \in 1..Len(addr) |->
            IF prefixlen >= i * w THEN addr[i]
            ELSE IF prefixlen <= (i - 1) * w THEN 0
            ELSE LET low == 2 ^ (i * w - prefixlen)
                 IN  (addr[i] \div low) * low]

\* str(IPv4Address)
FormatIPv4(addr) ==
    Join([i \in 1..4 |-> IntToStr(addr[i], 10)], <<".">>)

\* Length of the run of zero hextets that starts at index i.
RECURSIVE ZeroRun(_, _)
ZeroRun(hextets, i) ==
    IF i > Len(hextets) \/ hextets[i] # 0 THEN 0 ELSE 1 + ZeroRun(hextets, i + 1)

\* str(IPv6Address): lower-case hex without leading zeros, the first longest
\* run of two or more zero hextets compressed to "::".
FormatIPv6(addr) ==
    LET hex == [i \in 1..8 |-> IntToStr(addr[i], 16)]
        run == [i \in 1..8 |-> ZeroRun(addr, i)]
        best == CHOOSE n \in 0..8 :
                    /\ \E i \in 1..8 : run[i] = n
                    /\ \A i \in 1..8 : run[i] <= n
        start == CHOOSE i \in 1..8 :
                    /\ run[i] = best
                    /\ \A j \in 1..(i - 1) : run[j] < best
        end == start + best
    IN  IF best > 1
        THEN Join( (IF start = 1 THEN <<(<<>>)>> ELSE <<>>)
                   \o SubSeq(hex, 1, start - 1)
                   \o <<(<<>>)>>
                   \o SubSeq(hex, end, 8)
                   \o (IF end = 9 THEN <<(<<>>)>> ELSE <<>>),
                   <<":">>)
        ELSE Join(hex, <<":">>)

FormatAddr(addr, version) ==
    IF version = 4 THEN FormatIPv4(addr) ELSE FormatIPv6(addr)

\* IPv4Address(text): four decimal octets.
ParseIPv4(text) ==
    LET parts == Split(text, ".")
    IN  [i \in 1..4 |-> StrToInt(parts[i], 10)]

\* IPv6Address(text): hextets, with one "::" standing for the missing zeros.
ParseIPv6(text) ==
    LET parts == Split(text, ":")
        n == Len(parts)
        skips == {i \in 2..(n - 1) : parts[i] = <<>>}
    IN  IF skips = {}
        THEN [i \in 1..8 |-> StrToInt(parts[i], 16)]
        ELSE LET skip == CHOOSE i \in skips : TRUE
                 hi == SelectSeq(SubSeq(parts, 1, skip - 1), LAMBDA p : p # <<>>)
                 lo == SelectSeq(SubSeq(parts, skip + 1, n), LAMBDA p : p # <<>>)
             IN  [i \in 1..8 |->
                    IF i <= Len(hi) THEN StrToInt(hi[i], 16)
                    ELSE IF i > 8 - Len(lo) THEN StrToInt(lo[i - (8 - Len(lo))], 16)
                    ELSE 0]

\* An IPv4Network / IPv6Network object.
Network(addr, prefixlen, version) ==
    [addr |-> addr, prefixlen |-> prefixlen, version |-> version]

\* ip_network(text): the strict parse of the module-level blocks.
ip_network(text, version) ==
    LET parts == SplitOnce(text, "/")
        addr == IF version = 4 THEN ParseIPv4(parts[1]) ELSE ParseIPv6(parts[1])
    IN  Network(addr, StrToInt(parts[2], 10), version)

\* IPv4Network(text, strict=False) / IPv6Network(text, strict=False): the host
\* bits of the address are masked off.
NetworkNonStrict(text, version) ==
    LET parts == SplitOnce(text, "/")
        addr == IF version = 4 THEN ParseIPv4(parts[1]) ELSE ParseIPv6(parts[1])
        len == StrToInt(parts[2], 10)
    IN  Network(AddrMask(addr, len, version), len, version)

\* str(network)
FormatNetwork(net) ==
    FormatAddr(net.addr, net.version) \o <<"/">> \o IntToStr(net.prefixlen, 10)

\* list(net.hosts()): the single address of a /32 or /128, both addresses of
\* a /31 or /127, otherwise the addresses after the network address (up to
\* but excluding the broadcast address for IPv4).
Hosts(net) ==
    LET d == MaxPrefixLen(net.version) - net.prefixlen
    IN  IF d = 0 THEN <<net.addr>>
        ELSE IF d = 1 THEN <<net.addr, AddrAdd(net.addr, 1, net.version)>>
        ELSE [k \in 1..((2 ^ d) - (IF net.version = 4 THEN 2 ELSE 1)) |->
                 AddrAdd(net.addr, k, net.version)]


\* subnets(new_prefix=p) has more to yield after i subnets of the block: the
\* block holds 2^(p - prefixlen) of them (more than any cursor can count once
\* the difference exceeds 30 bits).
HasMore(block, new_prefix, i) ==
    LET d == new_prefix - block.prefixlen
    IN  d > 30 \/ i < 2 ^ d

\* The i-th (0-based) subnet that block.subnets(new_prefix=p) yields.
NthSubnet(block, new_prefix, i) ==
    LET step == 2 ^ (MaxPrefixLen(block.version) - new_prefix)
    IN  Network(AddrAdd(block.addr, i * step, block.version), new_prefix, block.version)

\* chain(*[ip_network(b).subnets(new_prefix=p) for b in blocks]), and a single
\* ip_network(b).subnets(new_prefix=p) as the chain of one block: a generator
\* positioned before the first subnet. k is the block being iterated and i
\* the number of subnets it has yielded.
Subnets(blocks, new_prefix) ==
    [blocks |-> blocks, new_prefix |-> new_prefix, k |-> 1, i |-> 0]

RECURSIVE Settle(_)
\* The generator moved past the blocks that have nothing left to yield.
Settle(g) ==
    IF g.k > Len(g.blocks) THEN g
    ELSE IF HasMore(g.blocks[g.k], g.new_prefix, g.i) THEN g
    ELSE Settle([g EXCEPT !.k = @ + 1, !.i = 0])

\* next(g) raises StopIteration.
Exhausted(g) ==
    Settle(g).k > Len(g.blocks)

\* The value next(g) returns.
NextValue(g) ==
    LET s == Settle(g)
    IN  NthSubnet(s.blocks[s.k], s.new_prefix, s.i)

\* The generator after next(g) returned.
Advance(g) ==
    LET s == Settle(g)
    IN  [s EXCEPT !.i = @ + 1]

(***************************************************************************)
(* Module-level constants of inventory.py.                                 *)
(***************************************************************************)

\* ipv4_nets = ["192.0.2.0/24", "198.51.100.0/24", "203.0.113.0/24"]
ipv4_nets ==
    << <<"1", "9", "2", ".", "0", ".", "2", ".", "0", "/", "2", "4">>,
       <<"1", "9", "8", ".", "5", "1", ".", "1", "0", "0", ".", "0", "/", "2", "4">>,
       <<"2", "0", "3", ".", "0", ".", "1", "1", "3", ".", "0", "/", "2", "4">> >>

\* Variant: the loopbacks taken from the last block, ipv4_nets.pop().
ipv4_loop_from_last_block ==
    Subnets(<<ip_network(ipv4_nets[Len(ipv4_nets)], 4)>>, 32)

\* Variant: the loopback block cut into /31s, subnets(new_prefix=31).
ipv4_loop_in_pairs ==
    Subnets(<<ip_network(Head(ipv4_nets), 4)>>, 31)

\* ipv4_loop = ip_network(ipv4_nets.pop(0)).subnets(new_prefix=32)
ipv4_loop_init ==
    Subnets(<<ip_network(Head(ipv4_nets), 4)>>, 32)

\* Variant: the loopback block left in ipv4_nets, ipv4_nets[0] for pop(0).
ipv4_link_with_loopback_block ==
    Subnets([n \in 1..Len(ipv4_nets) |-> ip_network(ipv4_nets[n], 4)], 31)

\* ipv4_link = chain(*[ip_network(n).subnets(new_prefix=31) for n in ipv4_nets])
\* (ipv4_nets after the pop(0): its tail)
ipv4_link_init ==
    Subnets([n \in 1..(Len(ipv4_nets) - 1) |-> ip_network(Tail(ipv4_nets)[n], 4)], 31)

\* ipv6_link = ip_network('2001:db8::/33').subnets(new_prefix=127)
ipv6_link_init ==
    Subnets(<<ip_network(<<"2", "0", "0", "1", ":", "d", "b", "8", ":", ":", "/", "3", "3">>, 6)>>, 127)

\* ipv6_loop = ip_network('2001:db8:8000::/33').subnets(new_prefix=128)
ipv6_loop_init ==
    Subnets(<<ip_network(<<"2", "0", "0", "1", ":", "d", "b", "8", ":", "8", "0", "0", "0", ":", ":", "/", "3", "3">>, 6)>>, 128)

\* The keys 'all' and '_meta' of INVENTORY.
KeyAll == <<"a", "l", "l">>
KeyMeta == <<"_", "m", "e", "t", "a">>

\* INVENTORY = {'all': {'children': []}, '_meta': {'hostvars': {}}}
EmptyDict == [k \in {} |-> k]

INVENTORY_init ==
    [key \in {KeyAll, KeyMeta} |->
        IF key = KeyAll THEN [children |-> <<>>] ELSE [hostvars |-> EmptyDict]]

\* eos_vars of add_lab_nodes.
eos_vars ==
    [ansible_connection |-> "ansible.netcommon.network_cli",
     ansible_network_os |-> "arista.eos.eos",
     ansible_user |-> "admin",
     ansible_password |-> "admin",
     ansible_become |-> "yes",
     ansible_become_method |-> "enable"]

\* d[key] = value on a dict.
DictSet(d, key, value) ==
    [x \in (DOMAIN d) \cup {key} |-> IF x = key THEN value ELSE d[x]]

\* item in list
InList(item, list) ==
    \E i \in 1..Len(list) : list[i] = item


(***************************************************************************)
(* State.                                                                  *)
(***************************************************************************)
VARIABLES
    pc,          \* where main() is: "add_lab_nodes", "add_lab_links",
                 \* "print", "done", or "raised" (an exception left main)
    exc,         \* the exception that left main, NoExc while there is none
    lab,         \* the topology read so far: name, and the items of
                 \* lab['topology']['nodes'] and lab['topology']['links']
                 \* the two loops have been handed
    INVENTORY,   \* the module-level dict
    ipv4_loop,   \* the four module-level generators
    ipv4_link,
    ipv6_link,
    ipv6_loop,
    node_num,    \* local counter of add_lab_nodes
    link_pfx,    \* per link iteration, its locals: ipv4_pfx, ipv6_pfx and the
                 \* intf_conf dicts it built
    stdout       \* what main() has printed

vars ==
    <<pc, exc, lab, INVENTORY, ipv4_loop, ipv4_link, ipv6_link, ipv6_loop,
      node_num, link_pfx, stdout>>

NoExc == [type |-> "none", func |-> "none"]

Raised(type, func) == [type |-> type, func |-> func]

(***************************************************************************)
(* add_lab_nodes: one iteration of `for node, node_details in              *)
(* lab_nodes.items()`.  The result holds the objects as the iteration      *)
(* leaves them, and the exception type that ended it ("none": it ran to    *)
(* its end).  The iteration is split where it can raise; each part hands   *)
(* the values computed so far to the next.                                 *)
(***************************************************************************)

\* node_type = node.split('-')[0]
\* Variant: node.rpartition('-')[0], empty for a name with no separator.
NodeTypeBeforeLastSeparator(node) ==
    IF Len(Split(node, "-")) = 1 THEN <<>> ELSE Split(node, "-")[1]

NodeType(node) ==
    Split(node, "-")[1]

\* node_vars: eos_vars for kind 'ceos', {} otherwise.
NodeVars(node_details) ==
    IF node_details.kind = "ceos" THEN eos_vars ELSE EmptyDict

\* loopback = str(next(pool)).split('/', maxsplit=1)[0]
DropNetmask(net) ==
    SplitOnce(FormatNetwork(net), "/")[1]

\* "".join(octet.rjust(3, '0') for octet in loopback_ipv4.split('.'))
\* Variant: the octets joined as they are, without rjust.
Unpadded(loopback_ipv4) ==
    Join(Split(loopback_ipv4, "."), <<>>)

ZeroPadded(loopback_ipv4) ==
    LET octets == Split(loopback_ipv4, ".")
    IN  Join([i \in 1..Len(octets) |-> Rjust(octets[i], 3, "0")], <<>>)

\* f"49.0001.{padded[0:4]}.{padded[4:8]}.{padded[8:]}.00"
ClnsFormat(padded) ==
    <<"4", "9", ".", "0", "0", "0", "1", ".">>
    \o Slice(padded, 0, 4) \o <<".">>
    \o Slice(padded, 4, 8) \o <<".">>
    \o SliceFrom(padded, 8) \o <<".", "0", "0">>

\* clns_net from the IPv4 loopback text.
ClnsNet(loopback_ipv4) ==
    ClnsFormat(ZeroPadded(loopback_ipv4))

\* f'clab-{lab_name}-{node}'
AnsibleHost(lab_name, node) ==
    <<"c", "l", "a", "b", "-">> \o lab_name \o <<"-">> \o node

\* if node_type not in INVENTORY['all']['children']: the group is created.
CreateGroup(inv, node_type, node_vars) ==
    IF InList(node_type, inv[KeyAll].children) THEN inv
    ELSE DictSet([inv EXCEPT ![KeyAll].children = Append(@, node_type)],
                 node_type, [hosts |-> <<>>, vars |-> node_vars])

\* INVENTORY[node_type]['hosts'].append(node)
AppendHost(inv, node_type, node) ==
    [inv EXCEPT ![node_type].hosts = Append(@, node)]

\* Lines 71-75: the type group is created on the first node of its type, and
\* the node appended to its hosts.
RegisterInGroup(inv, node, node_type, node_vars) ==
    AppendHost(CreateGroup(inv, node_type, node_vars), node_type, node)

NodeStep(inv, g6, g4, num, type) ==
    [INVENTORY |-> inv, ipv6_loop |-> g6, ipv4_loop |-> g4, node_num |-> num,
     exc |-> type]

\* INVENTORY['_meta']['hostvars'][node] = {...}; node_num += 1
StoreHostvars(inv, g6, g4, num, lab_name, node, loopback_ipv6, loopback_ipv4) ==
    IF "hostvars" \notin DOMAIN inv[KeyMeta]
    THEN NodeStep(inv, g6, g4, num, "KeyError")
    ELSE NodeStep(
            [inv EXCEPT ![KeyMeta].hostvars =
                DictSet(@, node,
                    [ansible_host |-> AnsibleHost(lab_name, node),
                     vars |-> [loopback_ipv6 |-> loopback_ipv6,
                               loopback_ipv4 |-> loopback_ipv4,
                               clns_net |-> ClnsNet(loopback_ipv4),
                               interfaces |-> EmptyDict]])],
            g6, g4, num + 1, "none")

\* next(ipv4_loop), after next(ipv6_loop) returned.
TakeLoopbackV4(inv, g6, g4, num, lab_name, node, loopback_ipv6) ==
    IF Exhausted(g4)
    THEN NodeStep(inv, g6, g4, num, "StopIteration")
    ELSE StoreHostvars(inv, g6, Advance(g4), num, lab_name, node,
                       loopback_ipv6, DropNetmask(NextValue(g4)))

\* next(ipv6_loop), then the rest.
TakeLoopbacks(inv, g6, g4, num, lab_name, node) ==
    IF Exhausted(g6)
    THEN NodeStep(inv, g6, g4, num, "StopIteration")
    ELSE TakeLoopbackV4(inv, Advance(g6), g4, num, lab_name, node,
                        DropNetmask(NextValue(g6)))

add_lab_nodes_iteration(inv, g6, g4, num, lab_name, node, node_details) ==
    IF "children" \notin DOMAIN inv[KeyAll]
    THEN NodeStep(inv, g6, g4, num, "KeyError")
    ELSE TakeLoopbacks(
            RegisterInGroup(inv, node, NodeType(node), NodeVars(node_details)),
            g6, g4, num, lab_name, node)

(***************************************************************************)
(* add_lab_links: one iteration of `for link in lab_links`, with its inner *)
(* loop over link['endpoints'].                                            *)
(***************************************************************************)

\* Variant: the first element returned, list[0].
FirstValue(list) ==
    list[1]

\* list.pop(): the last element is removed and returned.
PopValue(list) ==
    list[Len(list)]

PopRest(list) ==
    SubSeq(list, 1, Len(list) - 1)

\* Variant: the copy with nothing popped from it.
WithFirst(endpoints, endpoint) ==
    endpoints

\* _endpoints = [*endpoints]; _endpoints.pop(_endpoints.index(endpoint))
WithoutFirst(endpoints, endpoint) ==
    LET i == CHOOSE i \in 1..Len(endpoints) :
                /\ endpoints[i] = endpoint
                /\ \A j \in 1..(i - 1) : endpoints[j] # endpoint
    IN  SubSeq(endpoints, 1, i - 1) \o SubSeq(endpoints, i + 1, Len(endpoints))

\* f"{address}/{prefixlen}"
WithPrefixLen(addr, prefixlen, version) ==
    FormatAddr(addr, version) \o <<"/">> \o IntToStr(prefixlen, 10)

\* [str(host) for host in hosts if str(host) != own.split('/')[0]]
OtherHosts(hosts, own, version) ==
    SelectSeq([i \in 1..Len(hosts) |-> FormatAddr(hosts[i], version)],
              LAMBDA t : t # Split(own, "/")[1])

\* [str(host) for host in IPvXNetwork(own, strict=False).hosts()
\*  if str(host) != own.split('/')[0]]
NeighborCandidates(own, version) ==
    OtherHosts(Hosts(NetworkNonStrict(own, version)), own, version)

\* What the endpoints loop has reached: the objects, the intf_conf dicts built
\* so far in this link iteration (log), and the exception type.
EndpointStep(inv, ips4, ips6, log, type) ==
    [INVENTORY |-> inv, ipv4_pfx_ips |-> ips4, ipv6_pfx_ips |-> ips6, log |-> log,
     exc |-> type]

\* INVENTORY['_meta']['hostvars'][node]['vars']['interfaces'].update({intf: conf})
UpdateInterfaces(inv, node, intf, intf_conf) ==
    [inv EXCEPT ![KeyMeta].hostvars[node].vars.interfaces = DictSet(@, intf, intf_conf)]

\* The update of the node's interfaces with the finished intf_conf.
StoreInterface(inv, ips4, ips6, log, node, intf, intf_conf) ==
    IF \/ "hostvars" \notin DOMAIN inv[KeyMeta]
       \/ node \notin DOMAIN inv[KeyMeta].hostvars
    THEN EndpointStep(inv, ips4, ips6,
                      Append(log, [node |-> node, intf |-> intf, intf_conf |-> intf_conf,
                                   stored |-> FALSE]),
                      "KeyError")
    ELSE EndpointStep(UpdateInterfaces(inv, node, intf, intf_conf), ips4, ips6,
                      Append(log, [node |-> node, intf |-> intf, intf_conf |-> intf_conf,
                                   stored |-> TRUE]),
                      "none")

\* intf_conf['ipv4_neighbor'] and ['ipv6_neighbor']: ...[0] of the two lists.
AddNeighbors(inv, ips4, ips6, log, node, intf, neighbor, ipv4, ipv6, n4, n6) ==
    IF n4 = <<>> \/ n6 = <<>>
    THEN EndpointStep(inv, ips4, ips6, log, "IndexError")
    ELSE StoreInterface(inv, ips4, ips6, log, node, intf,
                        [ipv4 |-> ipv4,
                         ipv6 |-> ipv6,
                         neighbor |-> neighbor,
                         ipv4_neighbor |-> n4[1],
                         ipv6_neighbor |-> n6[1]])

\* The two neighbor lists, from intf_conf's own addresses.
NeighborAddresses(inv, ips4, ips6, log, node, intf, neighbor, ipv4, ipv6) ==
    AddNeighbors(inv, ips4, ips6, log, node, intf, neighbor, ipv4, ipv6,
                 NeighborCandidates(ipv4, 4), NeighborCandidates(ipv6, 6))

\* neighbor = _endpoints[0].split(':')[0], then intf_conf with the two pops.
BuildIntfConf(inv, ips4, ips6, log, ipv4_pfx_len, ipv6_pfx_len, node, intf, _endpoints) ==
    IF _endpoints = <<>>
    THEN EndpointStep(inv, ips4, ips6, log, "IndexError")
    ELSE IF ips4 = <<>>
    THEN EndpointStep(inv, ips4, ips6, log, "IndexError")
    ELSE IF ips6 = <<>>
    THEN EndpointStep(inv, PopRest(ips4), ips6, log, "IndexError")
    ELSE NeighborAddresses(inv, PopRest(ips4), PopRest(ips6), log, node, intf,
                           Split(_endpoints[1], ":")[1],
                           WithPrefixLen(PopValue(ips4), ipv4_pfx_len, 4),
                           WithPrefixLen(PopValue(ips6), ipv6_pfx_len, 6))

\* node, intf = endpoint.split(':')
UnpackEndpoint(inv, ips4, ips6, log, ipv4_pfx_len, ipv6_pfx_len, endpoints, endpoint, parts) ==
    IF Len(parts) # 2
    THEN EndpointStep(inv, ips4, ips6, log, "ValueError")
    ELSE BuildIntfConf(inv, ips4, ips6, log, ipv4_pfx_len, ipv6_pfx_len,
                       parts[1], parts[2], WithoutFirst(endpoints, endpoint))

\* The body of `for endpoint in link['endpoints']` for one endpoint.
endpoint_iteration(inv, ips4, ips6, log, ipv4_pfx_len, ipv6_pfx_len, endpoints, endpoint) ==
    UnpackEndpoint(inv, ips4, ips6, log, ipv4_pfx_len, ipv6_pfx_len, endpoints, endpoint,
                   Split(endpoint, ":"))

RECURSIVE endpoints_loop(_, _, _, _, _, _, _, _)

\* After the i-th endpoint left r: the loop ends if it raised, else goes on.
endpoints_next(r, ipv4_pfx_len, ipv6_pfx_len, endpoints, i) ==
    IF r.exc # "none" THEN r
    ELSE endpoints_loop(r.INVENTORY, r.ipv4_pfx_ips, r.ipv6_pfx_ips, r.log,
                        ipv4_pfx_len, ipv6_pfx_len, endpoints, i + 1)

\* Variant: `for endpoint in link['endpoints'][:2]`.
endpoints_loop_first_two(inv, ips4, ips6, log, ipv4_pfx_len, ipv6_pfx_len, endpoints, i) ==
    IF i > Len(endpoints) \/ i > 2 THEN EndpointStep(inv, ips4, ips6, log, "none")
    ELSE endpoints_next(
            endpoint_iteration(inv, ips4, ips6, log, ipv4_pfx_len, ipv6_pfx_len,
                               endpoints, endpoints[i]),
            ipv4_pfx_len, ipv6_pfx_len, endpoints, i)

\* `for endpoint in link['endpoints']` from the i-th endpoint on.
endpoints_loop(inv, ips4, ips6, log, ipv4_pfx_len, ipv6_pfx_len, endpoints, i) ==
    IF i > Len(endpoints) THEN EndpointStep(inv, ips4, ips6, log, "none")
    ELSE endpoints_next(
            endpoint_iteration(inv, ips4, ips6, log, ipv4_pfx_len, ipv6_pfx_len,
                               endpoints, endpoints[i]),
            ipv4_pfx_len, ipv6_pfx_len, endpoints, i)

\* pfx: the locals of the iteration, ipv4_pfx, ipv6_pfx and the intf_conf
\* dicts it built (<<>> when it did not get both subnets).
LinkStep(inv, g4, g6, pfx, type) ==
    [INVENTORY |-> inv, ipv4_link |-> g4, ipv6_link |-> g6, pfx |-> pfx, exc |-> type]

LinkResult(r, g4, g6, ipv4_pfx, ipv6_pfx) ==
    LinkStep(r.INVENTORY, g4, g6,
             <<[ipv4_pfx |-> ipv4_pfx, ipv6_pfx |-> ipv6_pfx, intf_confs |-> r.log]>>,
             r.exc)

\* ipv4_pfx_ips = list(ipv4_pfx.hosts()), ipv6_pfx_ips likewise, and the loop.
LinkEndpoints(inv, g4, g6, ipv4_pfx, ipv6_pfx, link) ==
    LinkResult(endpoints_loop(inv, Hosts(ipv4_pfx), Hosts(ipv6_pfx), <<>>,
                              ipv4_pfx.prefixlen, ipv6_pfx.prefixlen,
                              link.endpoints, 1),
               g4, g6, ipv4_pfx, ipv6_pfx)

\* next(ipv6_link), after next(ipv4_link) returned ipv4_pfx.
TakeLinkV6(inv, g4, g6, ipv4_pfx, link) ==
    IF Exhausted(g6)
    THEN LinkStep(inv, g4, g6, <<>>, "StopIteration")
    ELSE LinkEndpoints(inv, g4, Advance(g6), ipv4_pfx, NextValue(g6), link)

add_lab_links_iteration(inv, g4, g6, link) ==
    IF Exhausted(g4)
    THEN LinkStep(inv, g4, g6, <<>>, "StopIteration")
    ELSE TakeLinkV6(inv, Advance(g4), g6, NextValue(g4), link)

(***************************************************************************)
(* The topologies explored.  A small topology takes up to MaxNodes nodes   *)
(* from SmallNodes and up to MaxLinks links from SmallLinks, in any order  *)
(* and combination; a bulk topology is the one long enough to run the      *)
(* IPv4 pools dry: nodes BulkNode(0), BulkNode(1), ... and links           *)
(* BulkLink(0), BulkLink(1), ... between the first two of them.            *)
(***************************************************************************)
MaxNodes == 2
MaxLinks == 2
BulkNodes == 2

LabNames ==
    {<<"l", "a", "b">>}

\* Nodes "l-1" and "l-2" share a type and differ in kind; "x" has no
\* separator; the types of "all-1" and "_meta-1" are keys INVENTORY starts with.
SmallNodes ==
    { [node |-> <<"l", "-", "1">>,
       node_details |-> [kind |-> "ceos"]],
      [node |-> <<"l", "-", "2">>,
       node_details |-> [kind |-> "linux"]],
      [node |-> <<"s", "-", "1">>,
       node_details |-> [kind |-> "linux"]],
      [node |-> <<"x">>,
       node_details |-> [kind |-> "ceos"]],
      [node |-> <<"a", "l", "l", "-", "1">>,
       node_details |-> [kind |-> "ceos"]],
      [node |-> <<"_", "m", "e", "t", "a", "-", "1">>,
       node_details |-> [kind |-> "linux"]] }

\* Links between "l-1" and "s-1": two that use "l-1:e1", one that shares no
\* endpoint with the first, one from an endpoint to itself, and links of zero,
\* one and three endpoints and with an endpoint that has no ':'.
SmallLinks ==
    { [endpoints |-> <<<<"l", "-", "1", ":", "e", "1">>,
                      <<"s", "-", "1", ":", "e", "1">>>>],
      [endpoints |-> <<<<"s", "-", "1", ":", "e", "2">>,
                      <<"l", "-", "1", ":", "e", "1">>>>],
      [endpoints |-> <<<<"l", "-", "1", ":", "e", "2">>,
                      <<"s", "-", "1", ":", "e", "2">>>>],
      [endpoints |-> <<<<"l", "-", "1", ":", "e", "1">>,
                      <<"l", "-", "1", ":", "e", "1">>>>],
      [endpoints |-> <<>>],
      [endpoints |-> <<<<"l", "-", "1", ":", "e", "1">>>>],
      [endpoints |-> <<<<"l", "-", "1", ":", "e", "1">>,
                      <<"s", "-", "1", ":", "e", "1">>,
                      <<"s", "-", "1", ":", "e", "2">>>>],
      [endpoints |-> <<<<"l", "-", "1">>,
                      <<"s", "-", "1", ":", "e", "1">>>>] }

\* The i-th (0-based) node of the bulk topology: "r0-0", "r1-1", "r2-2",
\* "r0-3", ..., of alternating kind.
BulkNode(i) ==
    [node |-> <<"r", DigitChars[(i % 3) + 1], "-">> \o IntToStr(i, 10),
     node_details |-> [kind |-> IF i % 2 = 0 THEN "ceos" ELSE "linux"]]

\* The j-th (0-based) link of the bulk topology: "r0-0:e<j>" to "r1-1:e<j>".
BulkLink(j) ==
    [endpoints |-> << BulkNode(0).node \o <<":", "e">> \o IntToStr(j, 10),
                      BulkNode(1).node \o <<":", "e">> \o IntToStr(j, 10) >>]

IsBulk ==
    lab.nodes # <<>> /\ lab.nodes[1] = BulkNode(0)

\* The items lab['topology']['nodes'] may hold next (a dict: no name twice).
NodeInputs ==
    IF lab.nodes = <<>> THEN SmallNodes \cup {BulkNode(0)}
    ELSE IF IsBulk THEN {BulkNode(Len(lab.nodes))}
    ELSE IF Len(lab.nodes) >= MaxNodes THEN {}
    ELSE {n \in SmallNodes : \A i \in 1..Len(lab.nodes) : lab.nodes[i].node # n.node}

NodesMayEnd ==
    IsBulk => Len(lab.nodes) = BulkNodes

\* The items lab['topology']['links'] may hold next.
LinkInputs ==
    IF IsBulk THEN {BulkLink(Len(lab.links))}
    ELSE IF Len(lab.links) >= MaxLinks THEN {}
    ELSE SmallLinks

(***************************************************************************)
(* The program.                                                            *)
(***************************************************************************)
Init ==
    /\ pc = "add_lab_nodes"
    /\ exc = NoExc
    /\ \E name \in LabNames : lab = [name |-> name, nodes |-> <<>>, links |-> <<>>]
    /\ INVENTORY = INVENTORY_init
    /\ ipv4_loop = ipv4_loop_init
    /\ ipv4_link = ipv4_link_init
    /\ ipv6_link = ipv6_link_init
    /\ ipv6_loop = ipv6_loop_init
    /\ node_num = 1
    /\ link_pfx = <<>>
    /\ stdout = <<>>

\* main() -> add_lab_nodes(lab): the loop takes the next node.
NodeIterationDone(item, r) ==
    /\ lab' = [lab EXCEPT !.nodes = Append(@, item)]
    /\ INVENTORY' = r.INVENTORY
    /\ ipv6_loop' = r.ipv6_loop
    /\ ipv4_loop' = r.ipv4_loop
    /\ node_num' = r.node_num
    /\ exc' = IF r.exc = "none" THEN NoExc ELSE Raised(r.exc, "add_lab_nodes")
    /\ pc' = IF r.exc = "none" THEN "add_lab_nodes" ELSE "raised"

add_lab_nodes ==
    /\ pc = "add_lab_nodes"
    /\ \E item \in NodeInputs :
        NodeIterationDone(item,
            add_lab_nodes_iteration(INVENTORY, ipv6_loop, ipv4_loop, node_num,
                                    lab.name, item.node, item.node_details))
    /\ UNCHANGED <<ipv4_link, ipv6_link, link_pfx, stdout>>

\* add_lab_nodes returns: lab_nodes has no further item.
add_lab_nodes_end ==
    /\ pc = "add_lab_nodes"
    /\ NodesMayEnd
    /\ pc' = "add_lab_links"
    /\ UNCHANGED <<exc, lab, INVENTORY, ipv4_loop, ipv4_link, ipv6_link, ipv6_loop,
                   node_num, link_pfx, stdout>>

\* main() -> add_lab_links(lab): the loop takes the next link.
LinkIterationDone(link, r) ==
    /\ lab' = [lab EXCEPT !.links = Append(@, link)]
    /\ INVENTORY' = r.INVENTORY
    /\ ipv4_link' = r.ipv4_link
    /\ ipv6_link' = r.ipv6_link
    /\ link_pfx' = link_pfx \o r.pfx
    /\ exc' = IF r.exc = "none" THEN NoExc ELSE Raised(r.exc, "add_lab_links")
    /\ pc' = IF r.exc = "none" THEN "add_lab_links" ELSE "raised"

add_lab_links ==
    /\ pc = "add_lab_links"
    /\ \E link \in LinkInputs :
        LinkIterationDone(link,
            add_lab_links_iteration(INVENTORY, ipv4_link, ipv6_link, link))
    /\ UNCHANGED <<ipv4_loop, ipv6_loop, node_num, stdout>>

\* add_lab_links returns: lab_links has no further item.
add_lab_links_end ==
    /\ pc = "add_lab_links"
    /\ pc' = "print"
    /\ UNCHANGED <<exc, lab, INVENTORY, ipv4_loop, ipv4_link, ipv6_link, ipv6_loop,
                   node_num, link_pfx, stdout>>

\* Variant: the print reached also when a function raised (try/finally).
main_print_finally ==
    /\ pc \in {"print", "raised"}
    /\ stdout = <<>>
    /\ stdout' = Append(stdout, INVENTORY)
    /\ pc' = IF pc = "print" THEN "done" ELSE pc
    /\ UNCHANGED <<exc, lab, INVENTORY, ipv4_loop, ipv4_link, ipv6_link, ipv6_loop,
                   node_num, link_pfx>>

\* main(): print(json.dumps(INVENTORY, indent=4))
main_print ==
    /\ pc = "print"
    /\ stdout' = Append(stdout, INVENTORY)
    /\ pc' = "done"
    /\ UNCHANGED <<exc, lab, INVENTORY, ipv4_loop, ipv4_link, ipv6_link, ipv6_loop,
                   node_num, link_pfx>>

Next ==
    \/ add_lab_nodes
    \/ add_lab_nodes_end
    \/ add_lab_links
    \/ add_lab_links_end
    \/ main_print

Spec == Init /\ [][Next]_vars


(***************************************************************************)
(* Reading the state.                                                      *)
(***************************************************************************)

\* INVENTORY['_meta']['hostvars'] ({} once the '_meta' entry has lost it).
Hostvars ==
    IF "hostvars" \in DOMAIN INVENTORY[KeyMeta]
    THEN INVENTORY[KeyMeta].hostvars ELSE EmptyDict

\* The address of an "address/prefixlen" text.
AddrText(text) == SplitOnce(text, "/")[1]

EndNode(endpoint) == Split(endpoint, ":")[1]

EndIntf(endpoint) == Split(endpoint, ":")[2]

NoSeparator(node) == Find(node, "-") = 0

\* The text before the first '-' of a name that has one.
Prefix(node) == SubSeq(node, 1, Find(node, "-") - 1)

\* add_lab_nodes has returned / add_lab_links has raised nothing so far.
NodesRegistered == pc \in {"add_lab_links", "print", "done"}

LinksProcessed == pc \in {"add_lab_links", "print", "done"}

\* The k-th link iteration is the one that raised.
LinkRaised(k) ==
    pc = "raised" /\ exc.func = "add_lab_links" /\ k = Len(lab.links)

RECURSIVE SumLen(_, _)
SumLen(seqs, k) ==
    IF k = 0 THEN 0 ELSE Len(seqs[k]) + SumLen(seqs, k - 1)

LoopbacksV4 == {Hostvars[n].vars.loopback_ipv4 : n \in DOMAIN Hostvars}

LoopbacksV6 == {Hostvars[n].vars.loopback_ipv6 : n \in DOMAIN Hostvars}

\* The addresses given to the endpoints of all links, per family.
LinkAddrsV4 ==
    UNION {{AddrText(link_pfx[k].intf_confs[i].intf_conf.ipv4) :
                i \in 1..Len(link_pfx[k].intf_confs)} : k \in 1..Len(link_pfx)}

LinkAddrsV6 ==
    UNION {{AddrText(link_pfx[k].intf_confs[i].intf_conf.ipv6) :
                i \in 1..Len(link_pfx[k].intf_confs)} : k \in 1..Len(link_pfx)}

ConfCount ==
    SumLen([k \in 1..Len(link_pfx) |-> link_pfx[k].intf_confs], Len(link_pfx))

(***************************************************************************)
(* C1: all addresses handed out within one family are pairwise distinct:   *)
(* the loopbacks of the nodes differ; the addresses built for the          *)
(* endpoints of the links all differ (within a link and between links);    *)
(* each endpoint address lies in the subnet its link was allocated; and no *)
(* address is both a loopback and a link endpoint address.                 *)
(***************************************************************************)
C1_AddressesDistinct ==
    /\ Cardinality(LoopbacksV4) = Cardinality(DOMAIN Hostvars)
    /\ Cardinality(LoopbacksV6) = Cardinality(DOMAIN Hostvars)
    /\ Cardinality(LinkAddrsV4) = ConfCount
    /\ Cardinality(LinkAddrsV6) = ConfCount
    /\ \A k \in 1..Len(link_pfx) : \A i \in 1..Len(link_pfx[k].intf_confs) :
          /\ NetworkNonStrict(link_pfx[k].intf_confs[i].intf_conf.ipv4, 4)
                = link_pfx[k].ipv4_pfx
          /\ NetworkNonStrict(link_pfx[k].intf_confs[i].intf_conf.ipv6, 6)
                = link_pfx[k].ipv6_pfx
    /\ LoopbacksV4 \cap LinkAddrsV4 = {}
    /\ LoopbacksV6 \cap LinkAddrsV6 = {}

\* Two nodes and two two-endpoint links went through, and main() is done.
C1_Witness ==
    /\ pc = "done"
    /\ Cardinality(DOMAIN Hostvars) >= 2
    /\ Len(link_pfx) = 2
    /\ \A k \in 1..2 : Len(link_pfx[k].intf_confs) = 2

(***************************************************************************)
(* C2: neighbor symmetry of the stored interface records.                  *)
(***************************************************************************)
HasStored(endpoint) ==
    /\ Len(Split(endpoint, ":")) = 2
    /\ EndNode(endpoint) \in DOMAIN Hostvars
    /\ EndIntf(endpoint) \in DOMAIN Hostvars[EndNode(endpoint)].vars.interfaces

StoredConf(endpoint) ==
    Hostvars[EndNode(endpoint)].vars.interfaces[EndIntf(endpoint)]

\* The record stored under a names b's node, with b's stored addresses.
NamesAsNeighbor(a, b) ==
    /\ HasStored(a)
    /\ HasStored(b)
    /\ StoredConf(a).neighbor = EndNode(b)
    /\ StoredConf(a).ipv4_neighbor = AddrText(StoredConf(b).ipv4)
    /\ StoredConf(a).ipv6_neighbor = AddrText(StoredConf(b).ipv6)

Symmetric(link) ==
    /\ NamesAsNeighbor(link.endpoints[1], link.endpoints[2])
    /\ NamesAsNeighbor(link.endpoints[2], link.endpoints[1])

\* No node:interface endpoint is declared twice in the links of the topology.
EndpointsDeclaredOnce ==
    Cardinality(UNION {{lab.links[k].endpoints[i] : i \in 1..Len(lab.links[k].endpoints)} :
                          k \in 1..Len(lab.links)})
        = SumLen([k \in 1..Len(lab.links) |-> lab.links[k].endpoints], Len(lab.links))

\* C2 as claimed: after add_lab_links has processed any sequence of links,
\* every declared link between two endpoints A:ifX and B:ifY has, under A's
\* ifX, neighbor B with the address stored under B's ifY, and symmetrically.
C2_SymmetryAnyLinks ==
    LinksProcessed =>
        \A k \in 1..Len(lab.links) :
            (/\ Len(lab.links[k].endpoints) = 2
             /\ lab.links[k].endpoints[1] # lab.links[k].endpoints[2])
                => Symmetric(lab.links[k])

\* C2 as amended: the same, for the topologies that declare no node:interface
\* endpoint more than once.
C2_SymmetryDistinctEndpoints ==
    (LinksProcessed /\ EndpointsDeclaredOnce) =>
        \A k \in 1..Len(lab.links) :
            Len(lab.links[k].endpoints) = 2 => Symmetric(lab.links[k])

\* Two links with four different endpoints have been processed.
C2_Witness ==
    /\ pc = "done"
    /\ EndpointsDeclaredOnce
    /\ Len(lab.links) = 2
    /\ \A k \in 1..2 : Len(lab.links[k].endpoints) = 2

(***************************************************************************)
(* C3: which usable host of the link's subnets each endpoint is given.     *)
(***************************************************************************)
\* The intf_conf built for the i-th declared endpoint of the k-th link has
\* the addresses ipv4 and ipv6.
EndpointHasAddrs(k, i, ipv4, ipv6) ==
    /\ link_pfx[k].intf_confs[i].node = EndNode(lab.links[k].endpoints[i])
    /\ link_pfx[k].intf_confs[i].intf = EndIntf(lab.links[k].endpoints[i])
    /\ link_pfx[k].intf_confs[i].intf_conf.ipv4 = ipv4
    /\ link_pfx[k].intf_confs[i].intf_conf.ipv6 = ipv6

\* It has the h-th usable host of the link's subnets, with their prefix length.
EndpointHasHost(k, i, h) ==
    EndpointHasAddrs(k, i,
        WithPrefixLen(Hosts(link_pfx[k].ipv4_pfx)[h], link_pfx[k].ipv4_pfx.prefixlen, 4),
        WithPrefixLen(Hosts(link_pfx[k].ipv6_pfx)[h], link_pfx[k].ipv6_pfx.prefixlen, 6))

\* C3 as claimed: the first declared endpoint is given the first (lowest)
\* usable host of the v4 and of the v6 subnet, the second endpoint the second.
C3_FirstEndpointFirstHost ==
    \A k \in 1..Len(link_pfx) : \A i \in 1..Len(link_pfx[k].intf_confs) :
        i <= 2 => EndpointHasHost(k, i, i)

\* C3 as amended: the first declared endpoint is given the second (highest)
\* usable host of each subnet, the second endpoint the first (lowest).
C3_FirstEndpointLastHost ==
    \A k \in 1..Len(link_pfx) : \A i \in 1..Len(link_pfx[k].intf_confs) :
        i <= 2 => EndpointHasHost(k, i, 3 - i)

\* A link between two different endpoints has been processed and stored.
C3_Witness ==
    /\ LinksProcessed
    /\ \E k \in 1..Len(link_pfx) :
          /\ Len(link_pfx[k].intf_confs) = 2
          /\ lab.links[k].endpoints[1] # lab.links[k].endpoints[2]
          /\ HasStored(lab.links[k].endpoints[1])
          /\ StoredConf(lab.links[k].endpoints[1]).ipv4
                = WithPrefixLen(Hosts(link_pfx[k].ipv4_pfx)[2], 31, 4)


(***************************************************************************)
(* C4: the i-th declared node has the i-th subnet of each loopback pool    *)
(* (192.0.2.<i-1>, 2001:db8:8000::<i-1>), and the j-th declared link the   *)
(* j-th subnet of each link pool: the 128 /31s of 198.51.100.0/24, then    *)
(* those of 203.0.113.0/24, and 2001:db8::<2(j-1)>/127; whatever the       *)
(* names, kinds and endpoints.  The inventory is thus a function of the    *)
(* topology alone.                                                         *)
(***************************************************************************)
C4_AllocationByPosition ==
    /\ \A i \in 1..Len(lab.nodes) :
          lab.nodes[i].node \in DOMAIN Hostvars =>
              /\ Hostvars[lab.nodes[i].node].vars.loopback_ipv4
                    = FormatIPv4(<<192, 0, 2, i - 1>>)
              /\ Hostvars[lab.nodes[i].node].vars.loopback_ipv6
                    = FormatIPv6(<<8193, 3512, 32768, 0, 0, 0, 0, i - 1>>)
    /\ pc # "raised" => \A i \in 1..Len(lab.nodes) : lab.nodes[i].node \in DOMAIN Hostvars
    /\ \A j \in 1..Len(link_pfx) :
          /\ link_pfx[j].ipv4_pfx =
                IF j <= 128
                THEN Network(<<198, 51, 100, 2 * (j - 1)>>, 31, 4)
                ELSE Network(<<203, 0, 113, 2 * (j - 129)>>, 31, 4)
          /\ link_pfx[j].ipv6_pfx =
                Network(<<8193, 3512, 0, 0, 0, 0, 0, 2 * (j - 1)>>, 127, 6)
    /\ (pc # "raised" \/ exc.type # "StopIteration") => Len(link_pfx) = Len(lab.links)

\* The links have reached the second block of the v4 link pool.
C4_Witness ==
    /\ Len(link_pfx) = 130
    /\ link_pfx[130].ipv4_pfx.addr = <<203, 0, 113, 2>>
    /\ Cardinality(DOMAIN Hostvars) >= 2

(***************************************************************************)
(* C5: a pool fails exactly on the first allocation beyond its capacity:   *)
(* StopIteration leaves add_lab_nodes on node number capacity + 1 and on   *)
(* no earlier node, and leaves add_lab_links on link number capacity + 1   *)
(* and on no earlier link.                                                 *)
(***************************************************************************)
\* The /32s of the loopback block, and the /31s of the two link blocks.
LoopCapacityV4 ==
    2 ^ (32 - ip_network(ipv4_nets[1], 4).prefixlen)

LinkCapacityV4 ==
    2 ^ (31 - ip_network(ipv4_nets[2], 4).prefixlen)
    + 2 ^ (31 - ip_network(ipv4_nets[3], 4).prefixlen)

NodePoolExhausted == exc = Raised("StopIteration", "add_lab_nodes")

LinkPoolExhausted == exc = Raised("StopIteration", "add_lab_links")

C5_ExhaustionAtCapacity ==
    /\ NodePoolExhausted => (pc = "raised" /\ Len(lab.nodes) = LoopCapacityV4 + 1)
    /\ Len(lab.nodes) > LoopCapacityV4 => NodePoolExhausted
    /\ LinkPoolExhausted => (pc = "raised" /\ Len(lab.links) = LinkCapacityV4 + 1)
    /\ Len(lab.links) > LinkCapacityV4 => LinkPoolExhausted

\* The node after the last loopback: all earlier ones are registered.
C5_Witness ==
    /\ NodePoolExhausted
    /\ Cardinality(DOMAIN Hostvars) = LoopCapacityV4

(***************************************************************************)
(* C6: main() prints the inventory only after add_lab_nodes and            *)
(* add_lab_links have returned: whatever is printed is the one final       *)
(* INVENTORY, every node and link has been through its iteration, and a    *)
(* run that raised has printed nothing.                                    *)
(***************************************************************************)
C6_NoPartialOutput ==
    /\ pc = "raised" => stdout = <<>>
    /\ exc # NoExc => pc = "raised"
    /\ stdout # <<>> =>
          /\ pc = "done"
          /\ stdout = <<INVENTORY>>
          /\ node_num = Len(lab.nodes) + 1
          /\ Len(link_pfx) = Len(lab.links)
          /\ \A k \in 1..Len(lab.links) :
                Len(link_pfx[k].intf_confs) = Len(lab.links[k].endpoints)

\* add_lab_links raised on an endpoint of an unregistered node, after an
\* interface record of the link had been stored.
C6_Witness ==
    /\ pc = "raised"
    /\ exc = Raised("KeyError", "add_lab_links")
    /\ \E n \in DOMAIN Hostvars : DOMAIN Hostvars[n].vars.interfaces # {}
    /\ stdout = <<>>

(***************************************************************************)
(* C7: a node whose name has no '-' separator.                             *)
(***************************************************************************)
\* This step is the iteration of add_lab_nodes for a name without '-'.
RegistersNoSeparator ==
    /\ pc = "add_lab_nodes"
    /\ Len(lab'.nodes) = Len(lab.nodes) + 1
    /\ NoSeparator(lab'.nodes[Len(lab'.nodes)].node)

NewNode == lab'.nodes[Len(lab'.nodes)].node

\* C7 as claimed: the iteration fails, no type group is created or extended
\* and no loopback is allocated.
C7_NoSeparatorRejected ==
    [][RegistersNoSeparator =>
          /\ pc' = "raised"
          /\ INVENTORY' = INVENTORY
          /\ ipv4_loop' = ipv4_loop
          /\ ipv6_loop' = ipv6_loop]_vars

\* C7 as amended: the name is not rejected.  The whole name is the node's
\* type; the iteration raises only what it raises for any name (KeyError,
\* StopIteration); once past the lookup of the children list, the group named
\* by the whole name holds the node and a subnet is taken from each loopback
\* pool that has one; and when nothing is raised the node has its hostvars.
C7_NoSeparatorIsWholeNameType ==
    [][RegistersNoSeparator =>
          /\ exc'.type \in {"none", "KeyError", "StopIteration"}
          /\ "children" \in DOMAIN INVENTORY[KeyAll] =>
                /\ NewNode \in DOMAIN INVENTORY'
                /\ "hosts" \in DOMAIN INVENTORY'[NewNode]
                /\ InList(NewNode, INVENTORY'[NewNode].hosts)
                /\ ~Exhausted(ipv6_loop) => ipv6_loop' = Advance(ipv6_loop)
                /\ (~Exhausted(ipv6_loop) /\ ~Exhausted(ipv4_loop))
                      => ipv4_loop' = Advance(ipv4_loop)
          /\ exc'.type = "none" =>
                /\ NewNode \in DOMAIN Hostvars'
                /\ Hostvars'[NewNode].vars.loopback_ipv4
                      = DropNetmask(NextValue(ipv4_loop))]_vars

\* Node "x" is registered: in group "x", with a loopback.
C7_Witness ==
    \E i \in 1..Len(lab.nodes) :
        /\ NoSeparator(lab.nodes[i].node)
        /\ lab.nodes[i].node \in DOMAIN Hostvars
        /\ lab.nodes[i].node \in DOMAIN INVENTORY
        /\ InList(lab.nodes[i].node, INVENTORY[lab.nodes[i].node].hosts)
        /\ "children" \in DOMAIN INVENTORY[KeyAll]
        /\ InList(lab.nodes[i].node, INVENTORY[KeyAll].children)

(***************************************************************************)
(* C8: a link whose endpoint list does not have exactly two endpoints.     *)
(***************************************************************************)
\* C8 as claimed: such a link makes add_lab_links fail, before any interface
\* record of that link is stored.
C8_ArityRejected ==
    \A k \in 1..Len(link_pfx) :
        Len(lab.links[k].endpoints) # 2 =>
            /\ LinkRaised(k)
            /\ \A i \in 1..Len(link_pfx[k].intf_confs) :
                  ~link_pfx[k].intf_confs[i].stored

\* C8 as amended, for a link that got its subnets: with no endpoint it is
\* accepted, and nothing is stored for it; with one endpoint it raises
\* (IndexError, or ValueError for an endpoint without ':') before any
\* intf_conf of it is built; with three or more it raises, and where that is
\* the IndexError of the third endpoint's pop, the records of the first two
\* endpoints have been stored.
C8_ArityAsHandled ==
    \A k \in 1..Len(link_pfx) :
        LET n == Len(lab.links[k].endpoints)
            confs == link_pfx[k].intf_confs
        IN  /\ n = 0 => (~LinkRaised(k) /\ confs = <<>>)
            /\ n = 1 => /\ LinkRaised(k)
                        /\ exc.type \in {"IndexError", "ValueError"}
                        /\ confs = <<>>
            /\ n >= 3 => /\ LinkRaised(k)
                         /\ exc.type \in {"IndexError", "KeyError", "ValueError"}
                         /\ exc.type = "IndexError" =>
                               /\ Len(confs) = 2
                               /\ \A i \in 1..2 :
                                     /\ confs[i].stored
                                     /\ HasStored(lab.links[k].endpoints[i])

\* The link of three endpoints raised on its third, with two records stored.
C8_Witness ==
    /\ pc = "raised"
    /\ exc = Raised("IndexError", "add_lab_links")
    /\ Len(lab.links[Len(lab.links)].endpoints) = 3
    /\ Len(link_pfx[Len(link_pfx)].intf_confs) = 2
    /\ \A i \in 1..2 : HasStored(lab.links[Len(lab.links)].endpoints[i])

(***************************************************************************)
(* C9: after add_lab_nodes on node names that all contain a separator, the *)
(* children of 'all' are the distinct name prefixes, each once, in order   *)
(* of first occurrence; each prefix has a group whose hosts are exactly    *)
(* the nodes of that prefix, each once; and the group's vars are those of  *)
(* the kind of the first node of the prefix.                               *)
(***************************************************************************)
Types == {Prefix(lab.nodes[i].node) : i \in 1..Len(lab.nodes)}

\* Position of the first declared node of type t.
FirstOfType(t) ==
    CHOOSE i \in 1..Len(lab.nodes) :
        /\ Prefix(lab.nodes[i].node) = t
        /\ \A j \in 1..(i - 1) : Prefix(lab.nodes[j].node) # t

NodesOfType(t) ==
    SelectSeq([i \in 1..Len(lab.nodes) |-> lab.nodes[i].node],
              LAMBDA n : Prefix(n) = t)

GroupsAreTypes ==
    /\ "children" \in DOMAIN INVENTORY[KeyAll]
    /\ {INVENTORY[KeyAll].children[a] : a \in 1..Len(INVENTORY[KeyAll].children)} = Types
    /\ Len(INVENTORY[KeyAll].children) = Cardinality(Types)
    /\ \A a, b \in 1..Len(INVENTORY[KeyAll].children) :
          a < b => FirstOfType(INVENTORY[KeyAll].children[a])
                      < FirstOfType(INVENTORY[KeyAll].children[b])
    /\ \A t \in Types :
          /\ t \in DOMAIN INVENTORY
          /\ DOMAIN INVENTORY[t] = {"hosts", "vars"}
          /\ INVENTORY[t].hosts = NodesOfType(t)
          /\ INVENTORY[t].vars = NodeVars(lab.nodes[FirstOfType(t)].node_details)

C9_TypeGroups ==
    (NodesRegistered /\ \A i \in 1..Len(lab.nodes) : ~NoSeparator(lab.nodes[i].node))
        => GroupsAreTypes

\* The same, for names whose prefix is neither 'all' nor '_meta', in every
\* state add_lab_nodes leaves without raising.
C9_TypeGroupsOffInventoryKeys ==
    (/\ pc # "raised"
     /\ \A i \in 1..Len(lab.nodes) :
           /\ ~NoSeparator(lab.nodes[i].node)
           /\ Prefix(lab.nodes[i].node) \notin {KeyAll, KeyMeta})
        => GroupsAreTypes

(***************************************************************************)
(* C10: clns_net of a node is '49.0001.' d[0:4] '.' d[4:8] '.' d[8:12]     *)
(* '.00', d being the four octets of the node's IPv4 loopback, each as     *)
(* three decimal digits; distinct loopbacks give distinct identifiers.     *)
(***************************************************************************)
\* The three decimal digits of an octet.
ThreeDigits(n) ==
    <<DigitChars[(n \div 100) + 1], DigitChars[((n \div 10) % 10) + 1],
      DigitChars[(n % 10) + 1]>>

TwelveDigits(octets) ==
    ThreeDigits(octets[1]) \o ThreeDigits(octets[2])
        \o ThreeDigits(octets[3]) \o ThreeDigits(octets[4])

ClnsOf(octets) ==
    <<"4", "9", ".", "0", "0", "0", "1", ".">>
        \o SubSeq(TwelveDigits(octets), 1, 4) \o <<".">>
        \o SubSeq(TwelveDigits(octets), 5, 8) \o <<".">>
        \o SubSeq(TwelveDigits(octets), 9, 12) \o <<".", "0", "0">>

ClnsDerived ==
    /\ \A n \in DOMAIN Hostvars :
          Hostvars[n].vars.clns_net = ClnsOf(ParseIPv4(Hostvars[n].vars.loopback_ipv4))
    /\ Cardinality({Hostvars[n].vars.clns_net : n \in DOMAIN Hostvars})
          = Cardinality(LoopbacksV4)

\* C10 as claimed: with 192.0.2.1 giving 49.0001.1920.0002.0001.00.
C10_ClnsWithClaimedExample ==
    /\ ClnsDerived
    /\ \A n \in DOMAIN Hostvars :
          Hostvars[n].vars.loopback_ipv4 = <<"1", "9", "2", ".", "0", ".", "2", ".", "1">>
              => Hostvars[n].vars.clns_net = <<"4", "9", ".", "0", "0", "0", "1", ".", "1", "9", "2", "0", ".", "0", "0", "0", "2", ".", "0", "0", "0", "1", ".", "0", "0">>

\* C10 as amended: with 192.0.2.1 giving 49.0001.1920.0000.2001.00.
C10_ClnsWithComputedExample ==
    /\ ClnsDerived
    /\ \A n \in DOMAIN Hostvars :
          Hostvars[n].vars.loopback_ipv4 = <<"1", "9", "2", ".", "0", ".", "2", ".", "1">>
              => Hostvars[n].vars.clns_net = <<"4", "9", ".", "0", "0", "0", "1", ".", "1", "9", "2", "0", ".", "0", "0", "0", "0", ".", "2", "0", "0", "1", ".", "0", "0">>

\* A node has loopback 192.0.2.1, and another one three-digit last octet.
C10_Witness ==
    /\ \E n \in DOMAIN Hostvars : Hostvars[n].vars.loopback_ipv4 = <<"1", "9", "2", ".", "0", ".", "2", ".", "1">>
    /\ \E n \in DOMAIN Hostvars : Hostvars[n].vars.loopback_ipv4 = <<"1", "9", "2", ".", "0", ".", "2", ".", "2", "5", "5">>

====
